---- MODULE Spec2Model ----
(***************************************************************************)
(* Hierarchical deterministic symmetric keys (ts-hdsk).                    *)
(*                                                                         *)
(* The model follows the hash-parametric code: src/key.ts (deriveMaster,   *)
(* deriveChild, deriveNode, lineage), the second half of src/utils.ts      *)
(* (calcSalt, encodeInt, strToIndex, isValidIndex, getIndex, fingerprint)  *)
(* and the second half of src/types.ts (newSchema, newPath); of the older  *)
(* Blake2b code it follows src/hkdf.ts (hkdf).                             *)
(*                                                                         *)
(* Byte strings are sequences of chunks <<src, off, len>>: the len bytes   *)
(* that start at offset off of the byte stream src.  A literal byte v is   *)
(* the chunk <<<<"lit", v>>, 0, 1>> (n of them in a row have len n); the   *)
(* output of the injected hash, of HMAC and of HKDF is a chunk whose src   *)
(* is the term that produced it, so two digests are equal exactly when     *)
(* they come from the same call (the primitives are collision free).       *)
(*                                                                         *)
(* JavaScript numbers are records [nan, neg, frac, hi, lo] of magnitude    *)
(* hi * 2^16 + lo (+ a fractional part when frac), so that values at and   *)
(* above 2^31 keep their width.  Strings are sequences of characters.      *)
(*                                                                         *)
(* The byte fields of an HDKey are Uint8Arrays: objects with an identity.  *)
(* keys[k] holds their contents, bufs[k] the identities of the three       *)
(* buffers, numbered as they are allocated.                                *)
(***************************************************************************)
EXTENDS Integers, Sequences, FiniteSets, TLC

VARIABLES h, keys, bufs, ghost, schema, last

vars == <<h, keys, bufs, ghost, schema, last>>

(***************************************************************************)
(* Bounds of the model.                                                    *)
(***************************************************************************)
MaxKeys == 3

MaxPathLen == 2

MaxDepth == 2

\* The longest output requested of the Blake2b HKDF, in blocks of 64 bytes.
MaxBlocks == 3

(***************************************************************************)
(* Program constants.                                                      *)
(***************************************************************************)
KeyLen == 32

OkmLen == 64

FpLen == 16

SaltLen == 16

MaxSegments == 256

ModulusHi == 32768

MaxIndexHi == 32767

Base == 256 * 256

(***************************************************************************)
(* The injected hash adapters (CHash): name, digest length, block length:  *)
(* SHA-256, and BLAKE2s wrapped with a digest of 8 bytes.                  *)
(***************************************************************************)
Hashes == {"sha256", "blake2s8"}

OutLen(hh) == CASE hh = "sha256" -> 32 [] hh = "blake2s8" -> 8

BlockLen(hh) == CASE hh = "sha256" -> 64 [] hh = "blake2s8" -> 64

(***************************************************************************)
(* Byte strings.                                                           *)
(***************************************************************************)
\* n bytes of value v (a run of equal literal bytes is one chunk).
Run(v, n) == IF n <= 0 THEN <<>> ELSE << <<<<"lit", v>>, 0, n>> >>

IsLit(c) == c[1][1] = "lit"

RECURSIVE BLen(_)
BLen(b) == IF b = <<>> THEN 0 ELSE Head(b)[3] + BLen(Tail(b))

RECURSIVE Take(_, _)
Take(b, n) ==
    IF n <= 0 \/ b = <<>> THEN <<>>
    ELSE LET c == Head(b) IN
         IF c[3] <= n THEN <<c>> \o Take(Tail(b), n - c[3])
         ELSE << <<c[1], c[2], n>> >>

RECURSIVE Drop(_, _)
Drop(b, n) ==
    IF n <= 0 \/ b = <<>> THEN b
    ELSE LET c == Head(b) IN
         IF c[3] <= n THEN Drop(Tail(b), n - c[3])
         ELSE << <<c[1], IF IsLit(c) THEN 0 ELSE c[2] + n, c[3] - n>> >> \o Tail(b)

\* Uint8Array.prototype.slice(s, e) for 0 <= s <= e: clamps to the length.
Slice(b, s, e) == Take(Drop(b, s), e - s)

\* a followed by b; two pieces of one stream that touch are one piece.
Concat(a, b) ==
    IF a = <<>> THEN b
    ELSE IF b = <<>> THEN a
    ELSE LET x == a[Len(a)]
             y == Head(b)
         IN IF x[1] = y[1] /\ (IsLit(x) \/ x[2] + x[3] = y[2])
            THEN SubSeq(a, 1, Len(a) - 1) \o << <<x[1], x[2], x[3] + y[3]>> >> \o Tail(b)
            ELSE a \o b

\* The bytes s[1], s[2], ... given as numbers.
RECURSIVE Lit(_)
Lit(s) == IF s = <<>> THEN <<>> ELSE Concat(Run(Head(s), 1), Lit(Tail(s)))

Zeros(n) == Run(0, n)

\* The byte b[i] (0-based); reading past the end of a typed array is undefined,
\* which the bitwise operators take as 0.
RECURSIVE ByteAt(_, _)
ByteAt(b, i) ==
    IF b = <<>> THEN <<<<"lit", 0>>, 0>>
    ELSE LET c == Head(b) IN
         IF i < c[3] THEN <<c[1], IF IsLit(c) THEN 0 ELSE c[2] + i>>
         ELSE ByteAt(Tail(b), i - c[3])

\* The absent optional argument (undefined).
Undefined == << <<<<"undefined">>, 0, 0>> >>

(***************************************************************************)
(* The primitives of @noble/hashes the code calls.                         *)
(***************************************************************************)
\* h.create().update(msg).digest()
Hash(hh, msg) == << << <<"hash", hh, msg>>, 0, OutLen(hh) >> >>

RECURSIVE StripZeros(_)
StripZeros(k) ==
    IF k = <<>> THEN k
    ELSE IF k[Len(k)][1] = <<"lit", 0>> THEN StripZeros(SubSeq(k, 1, Len(k) - 1))
    ELSE k

\* HMAC pads its key with zero bytes to the block length and hashes a longer one.
HmacKey(hh, key) ==
    IF BLen(key) > BlockLen(hh) THEN StripZeros(Hash(hh, key)) ELSE StripZeros(key)

\* hmac.create(h, key).update(msg).digest()
Hmac(hh, key, msg) == << << <<"hmac", hh, HmacKey(hh, key), msg>>, 0, OutLen(hh) >> >>

\* hkdf(h, ikm, salt, info, length): extract, then the first length bytes of
\* the expand stream T(1) || T(2) || ...
Hkdf(hh, ikm, salt, info, length) ==
    LET prk == Hmac(hh, salt, ikm)
    IN  << << <<"okm", hh, prk, info>>, 0, length >> >>

(***************************************************************************)
(* src/hkdf.ts: HKDF over the keyed Blake2b of 64 bytes.  An optional      *)
(* length is <<>> (absent) or <<n>>.                                       *)
(***************************************************************************)
MacLen == 64

\* mac_digest: blake2b(data, { key: key, dkLen: 64 })
MacDigest(key, data) == << << <<"blake2b", key, data>>, 0, MacLen >> >>

HkdfExtract(ikm, salt) ==
    MacDigest(IF salt = Undefined THEN Zeros(MacLen) ELSE salt, ikm)

\* The loop of hkdf_expand: while okm.length < length, the counter goes up by
\* one, its low byte closes the input of the block t, and t is added to okm.
RECURSIVE ExpandLoop(_, _, _, _, _, _)
ExpandLoop(prk, info, length, t, okm, i) ==
    IF BLen(okm) < length
    THEN LET input == Concat(Concat(t, info), Lit(<<(i + 1) % 256>>))
             block == MacDigest(prk, input)
         IN  ExpandLoop(prk, info, length, block, Concat(okm, block), i + 1)
    ELSE okm

\* Mutant: the counter of the first block is 0.
HkdfExpandFromZero(prk, info, length) ==
    LET n == IF length = <<>> THEN 32 ELSE length[1]
    IN  Slice(ExpandLoop(prk, IF info = Undefined THEN <<>> ELSE info, n, <<>>, <<>>, -1), 0, n)

HkdfExpand(prk, info, length) ==
    LET n == IF length = <<>> THEN 32 ELSE length[1]
    IN  Slice(ExpandLoop(prk, IF info = Undefined THEN <<>> ELSE info, n, <<>>, <<>>, 0), 0, n)

\* hkdf of src/hkdf.ts.
Blake2bHkdf(ikm, salt, info, length) == HkdfExpand(HkdfExtract(ikm, salt), info, length)

(***************************************************************************)
(* JavaScript numbers.                                                     *)
(***************************************************************************)
Num(n) == [nan |-> FALSE, neg |-> FALSE, frac |-> FALSE, hi |-> n \div Base, lo |-> n % Base]

Limbs(hi, lo) == [nan |-> FALSE, neg |-> FALSE, frac |-> FALSE, hi |-> hi, lo |-> lo]

NaN == [nan |-> TRUE, neg |-> FALSE, frac |-> FALSE, hi |-> 0, lo |-> 0]

Neg(n) == [n EXCEPT !.neg = ~n.nan]

\* index >>> 0: ToUint32 (NaN and undefined give 0, fractions are cut, the
\* result is taken modulo 2^32).
ToUint32(n) ==
    IF n.nan THEN Num(0)
    ELSE LET hi == n.hi % Base
             lo == n.lo
         IN IF ~n.neg THEN Limbs(hi, lo)
            ELSE IF lo = 0 THEN Limbs((Base - hi) % Base, 0)
            ELSE Limbs(Base - 1 - hi, Base - lo)

\* The decimal digits of a non-negative integer, as character codes.
RECURSIVE DecDigits(_, _)
DecDigits(hi, lo) ==
    LET t == (hi % 10) * Base + lo
        qhi == hi \div 10
        qlo == t \div 10
        d == t % 10
    IN IF qhi = 0 /\ qlo = 0 THEN <<48 + d>>
       ELSE Append(DecDigits(qhi, qlo), 48 + d)

\* index.toString() of an unsigned 32 bit integer, as UTF-8 bytes.
IndexToString(n) == Lit(DecDigits(n.hi, n.lo))

(***************************************************************************)
(* Strings are sequences of one-character strings.  The characters and     *)
(* parseInt of the language, as the parsing of paths and schemas uses      *)
(* them.                                                                   *)
(***************************************************************************)
LowerHex == <<"0", "1", "2", "3", "4", "5", "6", "7", "8", "9", "a", "b", "c", "d", "e", "f">>

UpperHex == <<"0", "1", "2", "3", "4", "5", "6", "7", "8", "9", "A", "B", "C", "D", "E", "F">>

\* c is a digit of radix r.
IsRadixDigit(c, r) == \E d \in 1..r : LowerHex[d] = c \/ UpperHex[d] = c

DigitVal(c) == (CHOOSE d \in 1..16 : LowerHex[d] = c \/ UpperHex[d] = c) - 1

\* The white space that parseInt and trim skip (of it, the characters that
\* the strings of this model can hold).
WhiteSpace == {" ", "\t", "\n", "\r"}

RECURSIVE TrimStart(_)
TrimStart(s) ==
    IF s # <<>> /\ Head(s) \in WhiteSpace THEN TrimStart(Tail(s)) ELSE s

RECURSIVE TrimEnd(_)
TrimEnd(s) ==
    IF s # <<>> /\ s[Len(s)] \in WhiteSpace THEN TrimEnd(SubSeq(s, 1, Len(s) - 1)) ELSE s

\* String.prototype.trim
Trim(s) == TrimEnd(TrimStart(s))

\* The longest prefix of s made of digits of radix r.
RECURSIVE DigitPrefix(_, _)
DigitPrefix(s, r) ==
    IF s # <<>> /\ IsRadixDigit(Head(s), r)
    THEN <<Head(s)>> \o DigitPrefix(Tail(s), r)
    ELSE <<>>

\* The value of the digits z in radix r, on top of the value n.
RECURSIVE DigitsValue(_, _, _)
DigitsValue(z, r, n) ==
    IF z = <<>> THEN n
    ELSE LET t == n.lo * r + DigitVal(Head(z))
         IN  DigitsValue(Tail(z), r, Limbs(n.hi * r + t \div Base, t % Base))

\* parseInt(str) without a radix: white space is skipped, then a sign, then
\* 0x or 0X selects radix 16, then the longest prefix of digits is the value,
\* whatever follows it; NaN when there is no digit.  It never throws.
ParseInt(str) ==
    LET s1 == TrimStart(str)
        minus == s1 # <<>> /\ Head(s1) = "-"
        s2 == IF s1 # <<>> /\ Head(s1) \in {"+", "-"} THEN Tail(s1) ELSE s1
        hex == Len(s2) >= 2 /\ s2[1] = "0" /\ s2[2] \in {"x", "X"}
        r == IF hex THEN 16 ELSE 10
        s3 == IF hex THEN SubSeq(s2, 3, Len(s2)) ELSE s2
        z == DigitPrefix(s3, r)
        n == DigitsValue(z, r, Num(0))
    IN  IF z = <<>> THEN NaN
        ELSE IF minus THEN Neg(n) ELSE n

\* The search of split for sep in s, from left to right over the positions
\* lo .. hi, for a search that may next match at position start or later: the
\* positions where it finds sep and the position where it may match next.
\* (The range is halved, so that long strings do not nest deeply.)
RECURSIVE Scan(_, _, _, _, _)
Scan(s, sep, lo, hi, start) ==
    IF lo > hi THEN [found |-> <<>>, next |-> start]
    ELSE IF lo = hi
    THEN IF /\ lo >= start
            /\ lo + Len(sep) - 1 <= Len(s)
            /\ SubSeq(s, lo, lo + Len(sep) - 1) = sep
         THEN [found |-> <<lo>>, next |-> lo + Len(sep)]
         ELSE [found |-> <<>>, next |-> start]
    ELSE LET mid == (lo + hi) \div 2
             left == Scan(s, sep, lo, mid, start)
             right == Scan(s, sep, mid + 1, hi, left.next)
         IN  [found |-> left.found \o right.found, next |-> right.next]

\* String.prototype.split for a separator that is not empty: the pieces of s
\* between the occurrences of sep, of which there is at least one.
Split(s, sep) ==
    LET found == Scan(s, sep, 1, Len(s), 1).found
        k == Len(found)
    IN  [j \in 1..k + 1 |->
            SubSeq(s, IF j = 1 THEN 1 ELSE found[j - 1] + Len(sep),
                      IF j = k + 1 THEN Len(s) ELSE found[j] - 1)]

\* The strings of s with sep between them.
RECURSIVE Join(_, _)
Join(s, sep) ==
    IF s = <<>> THEN <<>>
    ELSE IF Len(s) = 1 THEN s[1]
    ELSE LET mid == Len(s) \div 2
         IN  Join(SubSeq(s, 1, mid), sep) \o sep \o Join(SubSeq(s, mid + 1, Len(s)), sep)

(***************************************************************************)
(* The path segments of the model, and the first four bytes of the digest  *)
(* of each under each hash, as a big-endian 32 bit integer in two 16 bit   *)
(* halves (computed with the hash functions themselves).                   *)
(***************************************************************************)
S42 == <<"4", "2">>

S123 == <<"1", "2", "3">>

SAlpha == <<"a", "l", "p", "h", "a">>

S12abc == <<"1", "2", "a", "b", "c">>

SHex == <<"0", "x", "1", "A">>

SEmpty == <<>>

SMinus1 == <<"-", "1">>

SMaxIndex == <<"2", "1", "4", "7", "4", "8", "3", "6", "4", "7">>

SPastMax == <<"2", "1", "4", "7", "4", "8", "3", "6", "4", "8">>

DigestWord(hh, str) ==
    IF hh = "sha256"
    THEN CASE str = S42 -> Limbs(29511, 23732)
           [] str = S123 -> Limbs(42597, 42073)
           [] str = SAlpha -> Limbs(36563, 63149)
           [] str = S12abc -> Limbs(31994, 58753)
           [] str = SHex -> Limbs(30257, 10878)
           [] str = SEmpty -> Limbs(58288, 50242)
           [] str = SMinus1 -> Limbs(7085, 27532)
           [] str = SMaxIndex -> Limbs(38701, 51962)
           [] str = SPastMax -> Limbs(14840, 54657)
    ELSE CASE str = S42 -> Limbs(65053, 61148)
           [] str = S123 -> Limbs(29004, 45639)
           [] str = SAlpha -> Limbs(40740, 64408)
           [] str = S12abc -> Limbs(2891, 60318)
           [] str = SHex -> Limbs(57684, 1613)
           [] str = SEmpty -> Limbs(61226, 35704)
           [] str = SMinus1 -> Limbs(12444, 56495)
           [] str = SMaxIndex -> Limbs(45181, 54227)
           [] str = SPastMax -> Limbs(32143, 60224)

(***************************************************************************)
(* src/utils.ts                                                            *)
(***************************************************************************)
SaltDomain == Lit(<<83, 65, 76, 84>>)

CalcSalt(hh, msg, info) ==
    LET key == IF info # Undefined
               THEN Slice(Hash(hh, info), 0, SaltLen)
               ELSE Zeros(SaltLen)
    IN  Slice(Hmac(hh, key, Concat(msg, SaltDomain)), 0, SaltLen)

EncodeInt(n) ==
    LET u == ToUint32(n)
    IN  Lit(<<u.hi \div 256, u.hi % 256, u.lo \div 256, u.lo % 256>>)

Fingerprint(hh, parent, child) == Slice(Hmac(hh, parent, child), 0, FpLen)

\* strToIndex: the first four bytes of the digest of str, big-endian, modulo
\* 2^31.  DataView.getUint32 throws a RangeError on a digest shorter than
\* four bytes.
StrToIndex(hh, str) ==
    IF OutLen(hh) < 4
    THEN [err |-> "RangeError", val |-> NaN]
    ELSE LET value == DigestWord(hh, str)
         IN  [err |-> "none", val |-> Limbs(value.hi % ModulusHi, value.lo)]

\* Number.isInteger(i) && i >= 0 && i <= 0x7FFFFFFF (-0 is an integer and
\* -0 >= 0).
IsValidIndex(i) ==
    /\ ~i.nan
    /\ ~i.frac
    /\ i.neg => (i.hi = 0 /\ i.lo = 0)
    /\ i.hi <= MaxIndexHi

TNum == <<"n", "u", "m">>

TStr == <<"s", "t", "r">>

TAny == <<"a", "n", "y">>

\* Mutant: a segment of digits under str is parsed as a number.
GetIndexSwitching(hh, index, type) ==
    LET parsed == ParseInt(index)
        got == IF type = TStr /\ parsed.nan THEN StrToIndex(hh, index)
               ELSE [err |-> "none", val |-> parsed]
    IN  IF type \notin {TNum, TStr, TAny} THEN [err |-> "TypeError", val |-> NaN]
        ELSE IF got.err # "none" THEN [err |-> "TypeError", val |-> NaN]
        ELSE IF IsValidIndex(got.val) THEN got
        ELSE [err |-> "RangeError", val |-> got.val]

\* getIndex: the error thrown ("none": it returned) and the index.  parseInt
\* never throws, so the catch blocks around it are never entered: tried
\* carries its outcome, always "none".
GetIndex(hh, index, type) ==
    LET tried == [err |-> "none", val |-> ParseInt(index)]
        hashed == StrToIndex(hh, index)
        got == CASE type = TNum ->
                      IF tried.err = "none" THEN tried
                      ELSE [err |-> "TypeError", val |-> NaN]
                 [] type = TStr ->
                      IF hashed.err = "none" THEN hashed
                      ELSE [err |-> "TypeError", val |-> NaN]
                 [] OTHER ->
                      IF tried.err = "none" THEN tried
                      ELSE IF hashed.err = "none" THEN hashed
                      ELSE [err |-> "SyntaxError", val |-> NaN]
    IN  IF type \notin {TNum, TStr, TAny} THEN [err |-> "TypeError", val |-> NaN]
        ELSE IF got.err # "none" THEN got
        ELSE IF IsValidIndex(got.val) THEN got
        ELSE [err |-> "RangeError", val |-> got.val]

(***************************************************************************)
(* src/types.ts.  A schema is a sequence of <<label, type>>, a path a      *)
(* sequence of indices.                                                    *)
(***************************************************************************)
RootName == <<"m">>

\* Mutant: the label and the type are not trimmed.
SchemaEntryUntrimmed(segment) ==
    LET fields == Split(segment, <<":">>)
        label == fields[1]
    IN  IF label = <<>> \/ Len(fields) < 2 \/ fields[2] = <<>>
        THEN [err |-> "SyntaxError", val |-> <<>>]
        ELSE IF fields[2] \notin {TStr, TNum, TAny}
        THEN [err |-> "TypeError", val |-> <<>>]
        ELSE [err |-> "none", val |-> <<label, fields[2]>>]

\* Mutant: the type is not compared with the allowed types.
SchemaEntryAnyType(segment) ==
    LET split == Split(segment, <<":">>)
        fields == [k \in 1..Len(split) |-> Trim(split[k])]
        label == fields[1]
    IN  IF label = <<>> \/ Len(fields) < 2 \/ fields[2] = <<>>
        THEN [err |-> "SyntaxError", val |-> <<>>]
        ELSE [err |-> "none", val |-> <<label, fields[2]>>]

\* The body of the loop of newSchema, for one segment: the error it throws
\* ("none": no error) and the entry it adds to the result.
SchemaEntry(segment) ==
    LET split == Split(segment, <<":">>)
        fields == [k \in 1..Len(split) |-> Trim(split[k])]
        label == fields[1]
    IN  IF label = <<>> \/ Len(fields) < 2 \/ fields[2] = <<>>
        THEN [err |-> "SyntaxError", val |-> <<>>]
        ELSE IF fields[2] \notin {TStr, TNum, TAny}
        THEN [err |-> "TypeError", val |-> <<>>]
        ELSE [err |-> "none", val |-> <<label, fields[2]>>]

\* The loop of newSchema over the segments after the root: it ends at the
\* first segment whose body throws, and returns the entries otherwise.
SchemaLoop(segments, result) ==
    LET failed == {k \in 1..Len(segments) : SchemaEntry(segments[k]).err # "none"}
        first == CHOOSE k \in failed : \A j \in failed : k <= j
    IN  IF failed # {}
        THEN [err |-> SchemaEntry(segments[first]).err, val |-> <<>>]
        ELSE [err |-> "none",
              val |-> result \o [k \in 1..Len(segments) |-> SchemaEntry(segments[k]).val]]

\* Mutant: the root of the schema is not looked at.
NewSchemaAnyRoot(str) ==
    LET segments == Split(str, <<" ", "/", " ">>)
    IN  IF Len(segments) > MaxSegments
        THEN [err |-> "RangeError", val |-> <<>>]
        ELSE SchemaLoop(Tail(segments), <<>>)

\* Mutant: the limit on the segments is off by one.
NewSchemaOffByOne(str) ==
    LET segments == Split(str, <<" ", "/", " ">>)
    IN  IF Len(segments) >= MaxSegments
        THEN [err |-> "RangeError", val |-> <<>>]
        ELSE IF segments[1] # RootName
        THEN [err |-> "SyntaxError", val |-> <<>>]
        ELSE SchemaLoop(Tail(segments), <<>>)

NewSchema(str) ==
    LET segments == Split(str, <<" ", "/", " ">>)
    IN  IF Len(segments) > MaxSegments
        THEN [err |-> "RangeError", val |-> <<>>]
        ELSE IF segments[1] # RootName
        THEN [err |-> "SyntaxError", val |-> <<>>]
        ELSE SchemaLoop(Tail(segments), <<>>)

\* Mutant: the error of getIndex is thrown again as a plain Error.
RECURSIVE PathLoopRewrapped(_, _, _, _, _)
PathLoopRewrapped(hh, indices, sch, i, result) ==
    IF i >= Len(indices)
    THEN [err |-> "none", val |-> result, pos |-> -1, label |-> <<>>]
    ELSE LET label == sch[i + 1][1]
             type == sch[i + 1][2]
             index == GetIndex(hh, indices[i + 1], type)
         IN  IF index.err # "none"
             THEN [err |-> "Error", val |-> <<>>, pos |-> i, label |-> label]
             ELSE PathLoopRewrapped(hh, indices, sch, i + 1, Append(result, index.val))

\* The loop of newPath: position i (from 0) of indices under sch.  An error of
\* getIndex is thrown again, in its own class, with the position and label.
RECURSIVE PathLoop(_, _, _, _, _)
PathLoop(hh, indices, sch, i, result) ==
    IF i >= Len(indices)
    THEN [err |-> "none", val |-> result, pos |-> -1, label |-> <<>>]
    ELSE LET label == sch[i + 1][1]
             type == sch[i + 1][2]
             index == GetIndex(hh, indices[i + 1], type)
         IN  IF index.err # "none"
             THEN [err |-> index.err, val |-> <<>>, pos |-> i, label |-> label]
             ELSE PathLoop(hh, indices, sch, i + 1, Append(result, index.val))

\* Mutant: the number of indices is checked before the root.
NewPathLengthFirst(hh, str, sch) ==
    LET pathArray == Split(str, <<"/">>)
        root == Head(pathArray)
        indices == Tail(pathArray)
    IN  IF Len(indices) > Len(sch)
        THEN [err |-> "RangeError", val |-> <<>>, pos |-> -1, label |-> <<>>]
        ELSE IF root # RootName
        THEN [err |-> "SyntaxError", val |-> <<>>, pos |-> -1, label |-> <<>>]
        ELSE PathLoop(hh, indices, sch, 0, <<>>)

\* Mutant: a path with as many indices as the schema has entries is refused.
NewPathStrict(hh, str, sch) ==
    LET pathArray == Split(str, <<"/">>)
        root == Head(pathArray)
        indices == Tail(pathArray)
    IN  IF root # RootName
        THEN [err |-> "SyntaxError", val |-> <<>>, pos |-> -1, label |-> <<>>]
        ELSE IF Len(indices) >= Len(sch)
        THEN [err |-> "RangeError", val |-> <<>>, pos |-> -1, label |-> <<>>]
        ELSE PathLoop(hh, indices, sch, 0, <<>>)

NewPath(hh, str, sch) ==
    LET pathArray == Split(str, <<"/">>)
        root == Head(pathArray)
        indices == Tail(pathArray)
    IN  IF root # RootName
        THEN [err |-> "SyntaxError", val |-> <<>>, pos |-> -1, label |-> <<>>]
        ELSE IF Len(indices) > Len(sch)
        THEN [err |-> "RangeError", val |-> <<>>, pos |-> -1, label |-> <<>>]
        ELSE PathLoop(hh, indices, sch, 0, <<>>)

(***************************************************************************)
(* src/key.ts                                                              *)
(***************************************************************************)
TagMaster == Lit(<<77, 65, 83, 84, 69, 82>>)

TagChild == Lit(<<67, 72, 73, 76, 68>>)

DeriveMaster(hh, secret) ==
    LET salt == CalcSalt(hh, secret, Undefined)
        ikm == Hkdf(hh, secret, salt, TagMaster, OkmLen)
        master == Slice(ikm, 0, KeyLen)
        code == Slice(ikm, KeyLen, OkmLen)
        fp == Fingerprint(hh, secret, master)
    IN  [key |-> master, code |-> code, depth |-> 0, fingerprint |-> fp]

\* deriveChild after its first line, for the index already made unsigned.
ChildFrom(hh, master, idx) ==
    LET info1 == EncodeInt(idx)
        salt == CalcSalt(hh, master.code, info1)
        info2 == Concat(TagChild, IndexToString(idx))
        ikm == Hkdf(hh, master.code, salt, info2, OkmLen)
        child == Slice(ikm, 0, KeyLen)
        code == Slice(ikm, KeyLen, OkmLen)
        fp == Fingerprint(hh, master.key, child)
    IN  [key |-> child, code |-> code, depth |-> master.depth + 1, fingerprint |-> fp]

\* Mutant: the child keeps the depth of its parent.
DeriveChildFlat(hh, master, index) ==
    [ChildFrom(hh, master, ToUint32(index)) EXCEPT !.depth = master.depth]

\* Mutant: the index is replaced by a counter of the keys derived so far.
DeriveChildCounting(hh, master, index) ==
    ChildFrom(hh, master, ToUint32(Num(Len(keys))))

\* Mutant: the index is taken modulo 2^31.
DeriveChildInt31(hh, master, index) ==
    LET u == ToUint32(index)
    IN  ChildFrom(hh, master, Limbs(u.hi % ModulusHi, u.lo))

DeriveChild(hh, master, index) == ChildFrom(hh, master, ToUint32(index))

\* path[i] (0-based): undefined past the end, which >>> 0 takes as NaN does.
PathAt(path, i) == IF i < Len(path) THEN path[i + 1] ELSE NaN

\* The keys deriveNode computes, in order: the one before the loop, then one
\* per iteration i = 1 .. path.length - 1.
RECURSIVE NodeLoop(_, _, _, _)
NodeLoop(hh, key, path, i) ==
    IF i < Len(path)
    THEN LET next == DeriveChild(hh, key, PathAt(path, i))
         IN  <<next>> \o NodeLoop(hh, next, path, i + 1)
    ELSE <<>>

DeriveNodeTrace(hh, master, path) ==
    LET key == DeriveChild(hh, master, PathAt(path, 0))
    IN  <<key>> \o NodeLoop(hh, key, path, 1)

\* Mutant: every index of the path is applied to the master key.
DeriveNodeFromMaster(hh, master, path) ==
    DeriveChild(hh, master, PathAt(path, IF path = <<>> THEN 0 ELSE Len(path) - 1))

DeriveNode(hh, master, path) ==
    LET trace == DeriveNodeTrace(hh, master, path)
    IN  trace[Len(trace)]

\* Mutant: the comparison loop leaves at the first pair of bytes that differ.
RECURSIVE XorLoopEarlyExit(_, _, _, _)
XorLoopEarlyExit(fp1, fp2, i, result) ==
    IF i < FpLen /\ result = 0
    THEN LET rest == XorLoopEarlyExit(fp1, fp2, i + 1,
                         IF ByteAt(fp1, i) = ByteAt(fp2, i) THEN result ELSE 1)
         IN  [rest EXCEPT !.ops = @ + 1]
    ELSE [result |-> result, ops |-> 0]

\* The comparison loop of lineage: result |= fp1[i] ^ fp2[i] for i = 0 .. 15;
\* result is kept as 0 (zero) or 1 (some bit set), and ops counts the
\* executions of the loop's body from i on.
RECURSIVE XorLoop(_, _, _, _)
XorLoop(fp1, fp2, i, result) ==
    IF i < FpLen
    THEN LET rest == XorLoop(fp1, fp2, i + 1,
                         IF ByteAt(fp1, i) = ByteAt(fp2, i) THEN result ELSE 1)
         IN  [rest EXCEPT !.ops = @ + 1]
    ELSE [result |-> result, ops |-> 0]

\* Mutant: no check of the fingerprints' lengths.
LineageUnchecked(hh, child, master) ==
    LET fp1 == child.fingerprint
        fp2 == Fingerprint(hh, master.key, child.key)
        cmp == XorLoop(fp1, fp2, 0, 0)
    IN  [err |-> "none", val |-> (cmp.result = 0), ops |-> cmp.ops]

\* Mutant: lineage also wants the child one level below the master.
LineageDepthChecked(hh, child, master) ==
    LET fp1 == child.fingerprint
        fp2 == Fingerprint(hh, master.key, child.key)
        cmp == XorLoop(fp1, fp2, 0, 0)
    IN  IF BLen(fp1) # FpLen \/ BLen(fp2) # FpLen
        THEN [err |-> "RangeError", val |-> FALSE, ops |-> 0]
        ELSE [err |-> "none",
              val |-> (cmp.result = 0 /\ child.depth = master.depth + 1),
              ops |-> cmp.ops]

\* The outcome of a call: the class of the error thrown ("none" when the call
\* returned), the value returned, and the number of executions of the body
\* of the comparison loop.
Lineage(hh, child, master) ==
    LET fp1 == child.fingerprint
        fp2 == Fingerprint(hh, master.key, child.key)
        cmp == XorLoop(fp1, fp2, 0, 0)
    IN  IF BLen(fp1) # FpLen \/ BLen(fp2) # FpLen
        THEN [err |-> "RangeError", val |-> FALSE, ops |-> 0]
        ELSE [err |-> "none", val |-> (cmp.result = 0), ops |-> cmp.ops]

(***************************************************************************)
(* The buffers of the HDKeys.  Uint8Array.prototype.slice and the digest   *)
(* of HMAC allocate: the buffers of a new HDKey are the next free ones.    *)
(***************************************************************************)
\* The identities of the buffers of an HDKey.
BufSet(b) == {b.key, b.code, b.fingerprint}

\* The first identity above those of the buffers the HDKeys hold.
Free(all) ==
    LET used == UNION {BufSet(all[k]) : k \in 1..Len(all)}
    IN  IF used = {} THEN 1 ELSE 1 + CHOOSE n \in used : \A m \in used : m <= n

\* deriveMaster: ikm.slice(0, 32), ikm.slice(32, 64) and the fingerprint.
MasterBuffers(free) == [key |-> free, code |-> free + 1, fingerprint |-> free + 2]

\* Mutant: the child keeps the chain code buffer of its parent.
ChildBuffersShared(master, free) ==
    [key |-> free, code |-> master.code, fingerprint |-> free + 1]

\* deriveChild: ikm.slice(0, 32), ikm.slice(32, 64) and the fingerprint; the
\* buffers of master are read only.
ChildBuffers(master, free) == [key |-> free, code |-> free + 1, fingerprint |-> free + 2]

\* deriveNode: the buffers of the key it returns; those of the keys on the way
\* to it are allocated before.
RECURSIVE NodeBuffersLoop(_, _, _)
NodeBuffersLoop(key, path, i) ==
    IF i < Len(path)
    THEN NodeBuffersLoop(ChildBuffers(key, key.fingerprint + 1), path, i + 1)
    ELSE key

NodeBuffers(master, path, free) == NodeBuffersLoop(ChildBuffers(master, free), path, 1)

(***************************************************************************)
(* The key hierarchy as a state machine.  keys is the list of the HDKeys   *)
(* derived so far; ghost[k] records how keys[k] was obtained: the call,    *)
(* the position of its parent in keys, the number of deriveChild calls     *)
(* between it and its master, and the inputs (secret and calls) it is a    *)
(* function of.  The caller is sequential: last is the call that has just  *)
(* returned, with its outcome, until the caller takes it (Return).         *)
(***************************************************************************)
Secrets == {Zeros(32), Lit(<<7>>)}

Indices == {Num(0), Num(42)}

\* The indices of the test vectors' path m/42/0/1/0.
VectorPath == <<Num(42), Num(0), Num(1), Num(0), Num(42), Num(0), Num(1), Num(0)>>

Paths == {SubSeq(VectorPath, 1, n) : n \in 0..MaxPathLen}

Tampers == {"none", "short", "long"}

\* A child HDKey as a caller may hand it to lineage: as derived, or with a
\* fingerprint buffer that lost its last byte or gained one.
Tamper(key, t) ==
    CASE t = "none" -> key
      [] t = "short" -> [key EXCEPT !.fingerprint = Slice(@, 0, BLen(@) - 1)]
      [] t = "long" -> [key EXCEPT !.fingerprint = Concat(@, Lit(<<0>>))]

NoSchema == <<>>

\* No call has returned.  A call's record names the call (op), its arguments
\* (c, p, t, u: the positions in keys of the child and the parent, and how
\* the child and the parent were altered; text: the string parsed, made of root and segs) and its
\* outcome (err: the class of the error thrown, "none" when it returned; val:
\* the boolean returned; ops: the executions of the body of the comparison
\* loop; path: the path returned; pos and label: the position and the label
\* the error names; args and out: the arguments and the bytes returned of a
\* call of a function on bytes).
Idle == [op |-> "none", c |-> 0, p |-> 0, t |-> "none", u |-> "none",
         text |-> <<>>, root |-> <<>>, segs |-> <<>>,
         err |-> "none", val |-> FALSE, ops |-> 0,
         path |-> <<>>, pos |-> -1, label |-> <<>>, args |-> <<>>, out |-> <<>>]

Init ==
    /\ h \in Hashes
    /\ keys = <<>>
    /\ bufs = <<>>
    /\ ghost = <<>>
    /\ schema = NoSchema
    /\ last = Idle

Master(secret) ==
    /\ last = Idle
    /\ keys' = Append(keys, DeriveMaster(h, secret))
    /\ bufs' = Append(bufs, MasterBuffers(Free(bufs)))
    /\ ghost' = Append(ghost, [op |-> "master", parent |-> 0, steps |-> 0,
                               secret |-> secret, calls |-> <<>>])
    /\ last' = [Idle EXCEPT !.op = "master", !.c = Len(keys) + 1]
    /\ UNCHANGED <<h, schema>>

Child(p, index) ==
    /\ last = Idle
    /\ p \in 1..Len(keys)
    /\ keys' = Append(keys, DeriveChild(h, keys[p], index))
    /\ bufs' = Append(bufs, ChildBuffers(bufs[p], Free(bufs)))
    /\ ghost' = Append(ghost, [op |-> "child", parent |-> p,
                               steps |-> ghost[p].steps + 1,
                               secret |-> ghost[p].secret,
                               calls |-> Append(ghost[p].calls, <<"child", <<index>> >>)])
    /\ last' = [Idle EXCEPT !.op = "child", !.c = Len(keys) + 1, !.p = p]
    /\ UNCHANGED <<h, schema>>

Node(p, path) ==
    /\ last = Idle
    /\ p \in 1..Len(keys)
    /\ keys' = Append(keys, DeriveNode(h, keys[p], path))
    /\ bufs' = Append(bufs, NodeBuffers(bufs[p], path, Free(bufs)))
    /\ ghost' = Append(ghost, [op |-> "node", parent |-> p,
                               steps |-> ghost[p].steps + Len(DeriveNodeTrace(h, keys[p], path)),
                               secret |-> ghost[p].secret,
                               calls |-> Append(ghost[p].calls, <<"node", path>>)])
    /\ last' = [Idle EXCEPT !.op = "node", !.c = Len(keys) + 1, !.p = p]
    /\ UNCHANGED <<h, schema>>

CheckLineage(c, p, t) ==
    /\ last = Idle
    /\ c \in 1..Len(keys)
    /\ p \in 1..Len(keys)
    /\ LET r == Lineage(h, Tamper(keys[c], t), keys[p])
       IN  last' = [Idle EXCEPT !.op = "lineage", !.c = c, !.p = p, !.t = t,
                                !.err = r.err, !.val = r.val, !.ops = r.ops]
    /\ UNCHANGED <<h, keys, bufs, ghost, schema>>

\* The caller takes the outcome of the call that returned.
Return ==
    /\ last # Idle
    /\ last' = Idle
    /\ UNCHANGED <<h, keys, bufs, ghost, schema>>

DoMaster == \E secret \in Secrets : Len(keys) < MaxKeys /\ Master(secret)

DoChild ==
    \E p \in 1..MaxKeys, index \in Indices :
        /\ Len(keys) < MaxKeys
        /\ p <= Len(keys)
        /\ keys[p].depth < MaxDepth
        /\ Child(p, index)

DoNode ==
    \E p \in 1..MaxKeys, path \in Paths :
        /\ Len(keys) < MaxKeys
        /\ p <= Len(keys)
        /\ keys[p].depth + Len(path) <= MaxDepth
        /\ Node(p, path)

DoLineage == \E c \in 1..MaxKeys, p \in 1..MaxKeys, t \in Tampers : CheckLineage(c, p, t)

Next == DoMaster \/ DoChild \/ DoNode \/ DoLineage \/ Return

Spec == Init /\ [][Next]_vars

(***************************************************************************)
(* Claims about the key hierarchy, checked under Spec.                     *)
(***************************************************************************)
\* The path of the deriveNode call that made keys[k].
NodePath(k) == ghost[k].calls[Len(ghost[k].calls)][2]

\* The left-to-right fold of deriveChild over path, from root.
RECURSIVE Fold(_, _, _)
Fold(hh, root, path) ==
    IF path = <<>> THEN root
    ELSE Fold(hh, DeriveChild(hh, root, Head(path)), Tail(path))

\* C1 (as claimed): lineage of a child made by deriveChild, checked against
\* the parent it was derived from, returns true.
C1_LineageSound ==
    (/\ last.op = "lineage"
     /\ last.t = "none"
     /\ ghost[last.c].op = "child"
     /\ ghost[last.c].parent = last.p)
    => (last.err = "none" /\ last.val)

\* C2 (as claimed): deriveNode is the left-to-right fold of deriveChild over
\* the path, at depth root.depth + len(path); for the empty path it is root.
C2_NodeIsFold ==
    last.op = "node"
    => /\ keys[last.c] = Fold(h, keys[last.p], NodePath(last.c))
       /\ keys[last.c].depth = keys[last.p].depth + Len(NodePath(last.c))

\* C3: a master key has depth 0, a child the depth of its parent plus one; a
\* key has depth 0 only if it is a master key, and its depth is the number of
\* deriveChild steps between it and its master.
C3_DepthMonotone ==
    \A k \in 1..Len(keys) :
        /\ ghost[k].op = "master" => keys[k].depth = 0
        /\ ghost[k].op = "child" => keys[k].depth = keys[ghost[k].parent].depth + 1
        /\ keys[k].depth = 0 <=> ghost[k].op = "master"
        /\ keys[k].depth = ghost[k].steps

\* A child, at depth 2, of a key that deriveNode made from a master key.
C3_Witness ==
    \E k \in 1..Len(keys) :
        /\ ghost[k].op = "child"
        /\ ghost[ghost[k].parent].op = "node"
        /\ keys[k].depth = 2

\* C5 (as claimed): every derived HDKey has a key of 32 bytes, a chain code of
\* 32 bytes and a fingerprint of 16 bytes, whatever the hash's digest length.
C5_KeyLengths ==
    \A k \in 1..Len(keys) :
        /\ BLen(keys[k].key) = 32
        /\ BLen(keys[k].code) = 32
        /\ BLen(keys[k].fingerprint) = 16

\* C10: lineage ends with a RangeError, and no boolean, whenever the child's
\* stored fingerprint is not exactly 16 bytes long.
C10_BadLengthThrows ==
    (/\ last.op = "lineage"
     /\ BLen(Tamper(keys[last.c], last.t).fingerprint) # 16)
    => last.err = "RangeError"

\* A fingerprint of 17 bytes whose first 16 are the recomputed fingerprint.
C10_Witness ==
    /\ last.op = "lineage"
    /\ last.t = "long"
    /\ BLen(Tamper(keys[last.c], last.t).fingerprint) = 17
    /\ Slice(Tamper(keys[last.c], last.t).fingerprint, 0, 16)
         = Fingerprint(h, keys[last.p].key, keys[last.c].key)
    /\ last.err = "RangeError"

(***************************************************************************)
(* Two runs of deriveMaster followed by deriveNode, one after the other in *)
(* the same process: keys[1] and keys[2] are the master and the node of    *)
(* the first run, keys[3] and keys[4] those of the second, which is given  *)
(* the secret and the path of the first.                                   *)
(***************************************************************************)
RunPaths == UNION {[1..n -> Indices] : n \in 0..MaxPathLen}

RunMaster ==
    \E secret \in Secrets :
        /\ Len(keys) \in {0, 2}
        /\ Len(keys) = 2 => secret = ghost[1].secret
        /\ Master(secret)

RunNode ==
    \E path \in RunPaths :
        /\ Len(keys) \in {1, 3}
        /\ Len(keys) = 3 => path = NodePath(2)
        /\ Node(Len(keys), path)

NextRuns == RunMaster \/ RunNode \/ Return

SpecRuns == Init /\ [][NextRuns]_vars

Segments == {S42, S123, SAlpha, S12abc, SHex, SEmpty, SMinus1, SMaxIndex, SPastMax}

Roots == {RootName, <<"x">>, <<>>}

Types == {TNum, TStr, TAny}

SchemaSep == <<" ", "/", " ">>

\* The schema segment "label: type".
SchemaSegment(label, type) == label \o <<":", " ">> \o type

\* The segments of the schema with the given types, labelled a, b, c ...
TypedSegments(types) ==
    [k \in 1..Len(types) |-> SchemaSegment(<<LowerHex[10 + k]>>, types[k])]

\* n segments "a: num".
UniformSegments(n) == [k \in 1..n |-> SchemaSegment(<<"a">>, TNum)]

\* The text of the schema with the given root and segments.
SchemaText(root, segs) == Join(<<root>> \o segs, SchemaSep)

\* Schemas as they should be: the root m and up to MaxPathLen typed segments.
GoodSchemas ==
    {<<RootName, TypedSegments(types)>> :
        types \in UNION {[1..n -> Types] : n \in 0..MaxPathLen}}

\* Schemas of MaxSegments and of MaxSegments + 1 segments, the root counted,
\* under the root m and under another root.
LongSchemas ==
    {<<root, UniformSegments(n)>> :
        root \in {RootName, <<"x">>}, n \in {MaxSegments - 1, MaxSegments}}

\* Schemas with a fault: a root that is not m, no root at all (the empty
\* string), "/" for " / ", a segment without a type, a type that is none of
\* the three, a segment without a label, a type that is empty, an empty
\* segment, a segment without a type after a segment as it should be, a type
\* that is one of the three but for its case.
BadSchemas ==
    {<<<<"x">>, <<>>>>,
     <<<<>>, <<>>>>,
     <<<<"m", "/", "a", ":", " ", "n", "u", "m">>, <<>>>>,
     <<RootName, <<<<"a">>>>>>,
     <<RootName, <<<<"a", ":", " ", "i", "n", "t">>>>>>,
     <<RootName, <<<<":", " ", "n", "u", "m">>>>>>,
     <<RootName, <<<<"a", ":">>>>>>,
     <<RootName, <<<<>>>>>>,
     <<RootName, <<SchemaSegment(<<"a">>, TNum), <<"b">>>>>>,
     <<RootName, <<<<"a", ":", " ", "N", "u", "m">>>>>>}

\* Schemas whose segments carry white space around the label and the type.
PaddedSchemas ==
    {<<RootName, <<<<" ", "a", " ", ":", " ", " ", "s", "t", "r", " ">>>>>>,
     <<RootName, <<<<"a", ":", "a", "n", "y">>>>>>}

\* Schemas with a segment of three fields: "a: num: x" and "a: num:".
ThreeFieldSchemas ==
    {<<RootName, <<<<"a", ":", " ", "n", "u", "m", ":", " ", "x">>>>>>,
     <<RootName, <<SchemaSegment(<<"a">>, TStr), <<"b", ":", " ", "n", "u", "m", ":">>>>>>}

SchemaInputs ==
    GoodSchemas \cup LongSchemas \cup BadSchemas \cup PaddedSchemas \cup ThreeFieldSchemas

ParseSchema(root, segs) ==
    /\ last = Idle
    /\ LET text == SchemaText(root, segs)
           r == NewSchema(text)
       IN  /\ schema' = IF r.err = "none" THEN r.val ELSE schema
           /\ last' = [Idle EXCEPT !.op = "newSchema", !.text = text, !.root = root,
                                   !.segs = segs, !.err = r.err]
    /\ UNCHANGED <<h, keys, bufs, ghost>>

ParsePath(root, segs) ==
    /\ last = Idle
    /\ LET text == Join(<<root>> \o segs, <<"/">>)
           r == NewPath(h, text, schema)
       IN  last' = [Idle EXCEPT !.op = "newPath", !.text = text, !.root = root,
                                !.segs = segs, !.err = r.err, !.path = r.val,
                                !.pos = r.pos, !.label = r.label]
    /\ UNCHANGED <<h, keys, bufs, ghost, schema>>

DoSchema == \E input \in SchemaInputs : ParseSchema(input[1], input[2])

DoPath ==
    \E root \in Roots, segs \in UNION {[1..n -> Segments] : n \in 0..MaxPathLen} :
        /\ root # RootName => Len(segs) <= 1
        /\ ParsePath(root, segs)

NextPath == DoSchema \/ DoPath \/ Return

SpecPath == Init /\ [][NextPath]_vars

(***************************************************************************)
(* Claims about the parsing of paths, checked under SpecPath.              *)
(***************************************************************************)
\* newPath has returned or thrown after it took up position i (from 1).
Processed(i) ==
    /\ last.op = "newPath"
    /\ i \in 1..Len(last.segs)
    /\ last.err = "none" \/ last.pos >= i - 1

\* newPath accepted position i, with index v.
PosYields(i, v) ==
    /\ last.err = "none" \/ last.pos > i - 1
    /\ last.err = "none" => last.path[i] = v

\* s is a base-10 unsigned integer literal: digits, and nothing else.
IsDecimalLiteral(s) == s # <<>> /\ \A k \in 1..Len(s) : IsRadixDigit(s[k], 10)

DecValue(s) == DigitsValue(s, 10, Num(0))

\* s is a label: letters, no digit, no sign.
IsLabelText(s) ==
    s # <<>> /\ \A k \in 1..Len(s) : ~IsRadixDigit(s[k], 10) /\ s[k] \notin {"+", "-"}

\* C6 (as claimed): at a position typed num, the segment "alpha" makes
\* newPath fail with a TypeError, and no path is returned.
C6_NumRejectsText ==
    \A i \in 1..MaxPathLen + 1 :
        (Processed(i) /\ schema[i][2] = TNum /\ last.segs[i] = SAlpha)
        => (last.err = "TypeError" /\ last.pos = i - 1 /\ last.path = <<>>)

\* C7 (as claimed): at a position typed any, a segment that is a number
\* yields its value, and a segment that is a label, such as "alpha", is
\* accepted and yields strToIndex of it.
C7_AnyFallsBack ==
    \A i \in 1..MaxPathLen + 1 :
        (Processed(i) /\ schema[i][2] = TAny)
        => /\ (IsDecimalLiteral(last.segs[i]) /\ DecValue(last.segs[i]).hi <= MaxIndexHi)
                => PosYields(i, DecValue(last.segs[i]))
           /\ IsLabelText(last.segs[i])
                => PosYields(i, StrToIndex(h, last.segs[i]).val)

\* C8 (as claimed): at a position typed num, a segment is accepted only when
\* the whole of it is a base-10 unsigned integer literal of a value in
\* 0..2^31-1, the index is that value, and every other segment fails with a
\* TypeError or a RangeError.
C8_NumWholeLiteral ==
    \A i \in 1..MaxPathLen + 1 :
        (Processed(i) /\ schema[i][2] = TNum)
        => IF IsDecimalLiteral(last.segs[i]) /\ DecValue(last.segs[i]).hi <= MaxIndexHi
           THEN PosYields(i, DecValue(last.segs[i]))
           ELSE last.pos = i - 1 /\ last.err \in {"TypeError", "RangeError"}

\* C9: at a position typed str every segment is accepted and its index is
\* strToIndex of its text; the segment "123" never yields the integer 123.
C9_StrIsHashed ==
    \A i \in 1..MaxPathLen + 1 :
        (Processed(i) /\ schema[i][2] = TStr)
        => /\ PosYields(i, StrToIndex(h, last.segs[i]).val)
           /\ (last.err = "none" /\ last.segs[i] = S123) => last.path[i] # Num(123)

\* newPath returned a path whose segment "123", typed str, became the first
\* four bytes of its SHA-256 digest modulo 2^31.
C9_Witness ==
    /\ last.op = "newPath"
    /\ last.err = "none"
    /\ h = "sha256"
    /\ \E i \in 1..Len(last.segs) :
        /\ schema[i][2] = TStr
        /\ last.segs[i] = S123
        /\ last.path[i] = Num(644195417)

(***************************************************************************)
(* Claims about the parsing of schemas, checked under SpecPath.            *)
(***************************************************************************)
\* C11: newSchema throws a RangeError for a schema of 257 or more segments,
\* the root counted, and returns 255 entries for a schema of 256 segments
\* that has the root m and segments "label: type".
C11_SchemaBoundary ==
    last.op = "newSchema"
    => /\ 1 + Len(last.segs) >= 257 => last.err = "RangeError"
       /\ (last.root = RootName /\ last.segs = UniformSegments(255))
            => (last.err = "none" /\ Len(schema) = 255)

\* A schema of 257 segments is refused after one of 256 was accepted.
C11_Witness ==
    /\ last.op = "newSchema"
    /\ last.root = RootName
    /\ Len(last.segs) = 256
    /\ last.err = "RangeError"
    /\ Len(schema) = 255

\* The segment s is of the type: any text for str, a base-10 unsigned integer
\* literal of a value in 0..2^31-1 for num and for any.
WellTyped(s, type) ==
    type = TStr \/ (IsDecimalLiteral(s) /\ DecValue(s).hi <= MaxIndexHi)

WideIndices == {Num(42), Limbs(ModulusHi, 0), Neg(Num(1)), [Num(1) EXCEPT !.frac = TRUE]}

\* Paths of one index, repeated.
WidePaths == {[k \in 1..n |-> index] : index \in WideIndices, n \in 1..MaxPathLen}

DoChildWide ==
    \E p \in 1..MaxKeys, index \in WideIndices :
        /\ Len(keys) < MaxKeys
        /\ p <= Len(keys)
        /\ keys[p].depth < MaxDepth
        /\ Child(p, index)

DoNodeWide ==
    \E p \in 1..MaxKeys, path \in WidePaths :
        /\ Len(keys) < MaxKeys
        /\ p <= Len(keys)
        /\ keys[p].depth + Len(path) <= MaxDepth
        /\ Node(p, path)

NextIndex == DoMaster \/ DoChildWide \/ DoNodeWide \/ Return

SpecIndex == Init /\ [][NextIndex]_vars

\* C13 (as claimed): no HDKey is derived for an index that the path parser
\* rejects as out of range: every index that deriveChild and deriveNode were
\* given for a key is an integer in 0..2^31-1.
C13_OneIndexRange ==
    \A k \in 1..Len(keys) :
        \A c \in 1..Len(ghost[k].calls) :
            \A j \in 1..Len(ghost[k].calls[c][2]) :
                IsValidIndex(ghost[k].calls[c][2][j])

(***************************************************************************)
(* Claims about lineage, checked under Spec.                               *)
(***************************************************************************)
\* C14 (as claimed): lineage of a child made by deriveChild, checked against
\* a key other than that of its parent (a sibling, the grandparent, another
\* master, the child itself), returns false.
C14_LineageNonForgery ==
    (/\ last.op = "lineage"
     /\ last.t = "none"
     /\ ghost[last.c].op = "child"
     /\ keys[last.p].key # keys[ghost[last.c].parent].key)
    => (last.err = "none" /\ last.val = FALSE)

(***************************************************************************)
(* Lineage checks on keys whose chain code or depth the caller changed,    *)
(* and on master keys whose secret is the key of an HDKey derived before.  *)
(***************************************************************************)
Alterations == {"none", "code", "depth"}

\* An HDKey as a caller may hand it to lineage: as derived, with another
\* chain code, or with another depth.
Alter(key, a) ==
    CASE a = "none" -> key
      [] a = "code" -> [key EXCEPT !.code = Zeros(KeyLen)]
      [] a = "depth" -> [key EXCEPT !.depth = @ + 1]

CheckLineageAltered(c, p, t, u) ==
    /\ last = Idle
    /\ c \in 1..Len(keys)
    /\ p \in 1..Len(keys)
    /\ LET r == Lineage(h, Alter(keys[c], t), Alter(keys[p], u))
       IN  last' = [Idle EXCEPT !.op = "lineage", !.c = c, !.p = p, !.t = t, !.u = u,
                                !.err = r.err, !.val = r.val, !.ops = r.ops]
    /\ UNCHANGED <<h, keys, bufs, ghost, schema>>

\* deriveMaster with the key of keys[k] as the secret.
DoReseed ==
    \E k \in 1..MaxKeys :
        /\ Len(keys) < MaxKeys
        /\ k <= Len(keys)
        /\ Master(keys[k].key)

DoLineageAltered ==
    \E c \in 1..MaxKeys, p \in 1..MaxKeys, t \in Alterations, u \in Alterations :
        /\ t = "none" \/ u = "none"
        /\ CheckLineageAltered(c, p, t, u)

NextLineage == DoMaster \/ DoReseed \/ DoChild \/ DoLineageAltered \/ Return

SpecLineage == Init /\ [][NextLineage]_vars

\* C15 (as claimed): the lineage check on a master key never returns true,
\* whatever the HDKey it is checked against.
C15_MasterHasNoLineage ==
    (last.op = "lineage" /\ ghost[last.c].op = "master")
    => ~(last.err = "none" /\ last.val)

\* C16: the verdict of lineage is a function of the key of the parent and of
\* the key and the fingerprint of the child, whatever their chain codes and
\* depths are: a RangeError unless both fingerprints have 16 bytes, and else
\* whether the stored fingerprint is fingerprint(h, parent.key, child.key);
\* and the fingerprint that deriveChild stores is that one.
C16_VerdictFromKeys ==
    /\ last.op = "lineage"
        => LET fp1 == keys[last.c].fingerprint
               fp2 == Fingerprint(h, keys[last.p].key, keys[last.c].key)
           IN  IF BLen(fp1) # 16 \/ BLen(fp2) # 16
               THEN last.err = "RangeError"
               ELSE last.err = "none" /\ last.val = (fp1 = fp2)
    /\ \A k \in 1..Len(keys) :
        ghost[k].op = "child"
        => keys[k].fingerprint = Fingerprint(h, keys[ghost[k].parent].key, keys[k].key)

\* lineage returned true for a child with another depth, against its parent.
C16_Witness ==
    /\ last.op = "lineage"
    /\ last.t = "depth"
    /\ ghost[last.c].op = "child"
    /\ ghost[last.c].parent = last.p
    /\ last.err = "none"
    /\ last.val

\* The positions (from 1) of the path parsed last whose segment getIndex
\* refuses under the type of the schema.
FailingPositions ==
    {i \in 1..Len(last.segs) : GetIndex(h, last.segs[i], schema[i][2]).err # "none"}

\* C17: when getIndex refuses a segment, newPath throws an error of the class
\* of the error of the lowest position refused, with that position and the
\* label of the schema there, and returns no path.
C17_ErrorCarriesPosition ==
    (last.op = "newPath" /\ last.root = RootName /\ Len(last.segs) <= Len(schema))
    => IF FailingPositions = {}
       THEN last.err = "none" /\ last.pos = -1
       ELSE LET first == CHOOSE i \in FailingPositions : \A j \in FailingPositions : i <= j
            IN  /\ last.err = GetIndex(h, last.segs[first], schema[first][2]).err
                /\ last.pos = first - 1
                /\ last.label = schema[first][1]
                /\ last.path = <<>>

\* newPath threw a RangeError for position 1, label b, after it had accepted
\* position 0.
C17_Witness ==
    /\ last.op = "newPath"
    /\ Len(last.segs) = 2
    /\ last.err = "RangeError"
    /\ last.pos = 1
    /\ last.label = <<"b">>
    /\ last.path = <<>>

\* C18 (as claimed): newSchema throws a SyntaxError for every schema string
\* whose first segment is not m.
C18_RootIsM ==
    (last.op = "newSchema" /\ last.root # RootName)
    => last.err = "SyntaxError"

\* C18 (amended): newSchema throws a SyntaxError for every schema string of
\* at most 256 segments whose first segment is not m, and a RangeError for
\* one of more segments.
C18_RootIsMWithinLimit ==
    (last.op = "newSchema" /\ last.root # RootName)
    => IF 1 + Len(last.segs) <= 256
       THEN last.err = "SyntaxError"
       ELSE last.err = "RangeError"

\* newSchema threw a SyntaxError for "m/a: num", where "/" stands for " / ".
C18_Witness ==
    /\ last.op = "newSchema"
    /\ last.text = <<"m", "/", "a", ":", " ", "n", "u", "m">>
    /\ last.err = "SyntaxError"

\* C19: newPath throws a SyntaxError for every path string whose first
\* segment is not m, before it looks at the number of indices or converts
\* one, and returns no path.
C19_PathRootFirst ==
    (last.op = "newPath" /\ last.root # RootName)
    => (last.err = "SyntaxError" /\ last.pos = -1 /\ last.path = <<>>)

\* newPath threw a SyntaxError for the root x of a path that has more indices
\* than the schema has entries.
C19_Witness ==
    /\ last.op = "newPath"
    /\ last.root = <<"x">>
    /\ Len(last.segs) > Len(schema)
    /\ last.err = "SyntaxError"

\* The segment s without its white space, the places in it of its colons,
\* and the label and the type that it names: the text before the first colon
\* and the text between the first colon and the second, or the end.
Squeezed(s) == SelectSeq(s, LAMBDA ch : ch \notin WhiteSpace)

Colons(s) == {k \in 1..Len(Squeezed(s)) : Squeezed(s)[k] = ":"}

FirstColon(s) == CHOOSE k \in Colons(s) : \A j \in Colons(s) : k <= j

LabelOf(s) == SubSeq(Squeezed(s), 1, FirstColon(s) - 1)

TypeOf(s) ==
    LET later == {k \in Colons(s) : k > FirstColon(s)}
        stop == IF later = {} THEN Len(Squeezed(s)) + 1
                ELSE CHOOSE k \in later : \A j \in later : k <= j
    IN  SubSeq(Squeezed(s), FirstColon(s) + 1, stop - 1)

\* The segment has no colon, no label or no type.
Malformed(s) == Colons(s) = {} \/ LabelOf(s) = <<>> \/ TypeOf(s) = <<>>

\* The positions of the schema parsed last whose segment is at fault.
FaultySegments ==
    {i \in 1..Len(last.segs) :
        Malformed(last.segs[i]) \/ TypeOf(last.segs[i]) \notin Types}

\* C20: newSchema splits every segment after the root at the colon into a
\* label and a type, without the white space around them, and throws a
\* SyntaxError when the first segment at fault lacks its label or its type.
C20_SegmentsTrimmed ==
    (last.op = "newSchema" /\ last.root = RootName /\ 1 + Len(last.segs) <= 256)
    => IF FaultySegments = {}
       THEN /\ last.err = "none"
            /\ schema = [i \in 1..Len(last.segs) |->
                            <<LabelOf(last.segs[i]), TypeOf(last.segs[i])>>]
       ELSE LET first == CHOOSE i \in FaultySegments : \A j \in FaultySegments : i <= j
            IN  Malformed(last.segs[first]) => last.err = "SyntaxError"

\* newSchema returned the entry (a, str) for the segment " a :  str ".
C20_Witness ==
    /\ last.op = "newSchema"
    /\ last.segs = <<<<" ", "a", " ", ":", " ", " ", "s", "t", "r", " ">>>>
    /\ last.err = "none"
    /\ schema = <<<<<<"a">>, TStr>>>>

\* newSchema threw a SyntaxError for a segment without a type that follows a
\* segment as it should be.
C20_WitnessFault ==
    /\ last.op = "newSchema"
    /\ Len(last.segs) = 2
    /\ Malformed(last.segs[2])
    /\ last.err = "SyntaxError"

(***************************************************************************)
(* The types of a schema.                                                  *)
(***************************************************************************)
\* C21: newSchema throws a TypeError when the first segment at fault has a
\* label and a type and the type is not exactly str, num or any, and every
\* entry of a schema that newSchema returned has one of these three types.
C21_TypesAllowed ==
    /\ \A i \in 1..Len(schema) : schema[i][2] \in {TStr, TNum, TAny}
    /\ (last.op = "newSchema" /\ last.root = RootName /\ 1 + Len(last.segs) <= 256
        /\ FaultySegments # {})
       => LET first == CHOOSE i \in FaultySegments : \A j \in FaultySegments : i <= j
          IN  ~Malformed(last.segs[first]) => last.err = "TypeError"

\* newSchema threw a TypeError for the type Num.
C21_Witness ==
    /\ last.op = "newSchema"
    /\ last.segs = <<<<"a", ":", " ", "N", "u", "m">>>>
    /\ last.err = "TypeError"

\* newSchema returned a schema of two entries.
C21_WitnessReturned ==
    /\ last.op = "newSchema"
    /\ last.err = "none"
    /\ Len(schema) = 2

(***************************************************************************)
(* The comparison of lineage on fingerprints that differ in one byte.      *)
(***************************************************************************)
Flips == {"none", "first", "last"}

\* The bytes b with the byte at i (0-based) replaced by another value.
FlipAt(b, i) ==
    Concat(Concat(Take(b, i), << <<<<"flip", ByteAt(b, i)>>, 0, 1>> >>), Drop(b, i + 1))

\* A child HDKey as a caller may hand it to lineage: as derived, or with the
\* first or the last byte of its fingerprint changed.
Flip(key, t) ==
    CASE t = "none" -> key
      [] t = "first" -> [key EXCEPT !.fingerprint = FlipAt(@, 0)]
      [] t = "last" -> [key EXCEPT !.fingerprint = FlipAt(@, BLen(@) - 1)]

CheckLineageFlipped(c, p, t) ==
    /\ last = Idle
    /\ c \in 1..Len(keys)
    /\ p \in 1..Len(keys)
    /\ LET r == Lineage(h, Flip(keys[c], t), keys[p])
       IN  last' = [Idle EXCEPT !.op = "lineage", !.c = c, !.p = p, !.t = t,
                                !.err = r.err, !.val = r.val, !.ops = r.ops]
    /\ UNCHANGED <<h, keys, bufs, ghost, schema>>

DoLineageFlipped ==
    \E c \in 1..MaxKeys, p \in 1..MaxKeys, t \in Flips : CheckLineageFlipped(c, p, t)

NextCompare == DoMaster \/ DoChild \/ DoLineageFlipped \/ Return

SpecCompare == Init /\ [][NextCompare]_vars

\* C22: a lineage check that returns has executed the body of its comparison
\* loop 16 times, once for each byte of the fingerprints, whether the
\* fingerprints are equal, differ in the first byte, differ in the last byte
\* or differ in all of them.
C22_ConstantTime ==
    (last.op = "lineage" /\ last.err = "none") => last.ops = 16

\* lineage returned false for a child whose fingerprint differs from the
\* expected one in the first byte only.
C22_Witness ==
    /\ last.op = "lineage"
    /\ last.t = "first"
    /\ ghost[last.c].op = "child"
    /\ ghost[last.c].parent = last.p
    /\ last.err = "none"
    /\ last.val = FALSE
    /\ last.ops = 16

\* lineage returned false for a child whose fingerprint differs from the
\* expected one in the last byte only.
C22_WitnessLast ==
    /\ last.op = "lineage"
    /\ last.t = "last"
    /\ ghost[last.c].op = "child"
    /\ ghost[last.c].parent = last.p
    /\ last.err = "none"
    /\ last.val = FALSE
    /\ last.ops = 16

\* lineage returned true.
C22_WitnessEqual ==
    /\ last.op = "lineage"
    /\ last.t = "none"
    /\ last.err = "none"
    /\ last.val
    /\ last.ops = 16

Prescribed(type, seg, v) ==
    CASE type = TNum -> IsDecimalLiteral(seg) /\ v = DecValue(seg)
      [] type = TStr -> v = StrToIndex(h, seg).val
      [] type = TAny -> IF IsDecimalLiteral(seg) THEN v = DecValue(seg)
                        ELSE v = StrToIndex(h, seg).val

\* C24 (as claimed): a path that newPath returns is no longer than the
\* schema, and its element at each position is an integer in 0..2^31-1 that
\* is the index the type of the schema at that position prescribes for the
\* segment.
C24_PathValidated ==
    (last.op = "newPath" /\ last.err = "none")
    => /\ Len(last.path) <= Len(schema)
       /\ \A i \in 1..Len(last.path) :
            /\ IsValidIndex(last.path[i])
            /\ Prescribed(schema[i][2], last.segs[i], last.path[i])

\* What holds of C24: the length of a returned path, the range of its
\* elements, and the indices at the positions typed str.
C24_LengthAndRange ==
    (last.op = "newPath" /\ last.err = "none")
    => /\ Len(last.path) = Len(last.segs)
       /\ Len(last.path) <= Len(schema)
       /\ \A i \in 1..Len(last.path) :
            /\ IsValidIndex(last.path[i])
            /\ schema[i][2] = TStr => last.path[i] = StrToIndex(h, last.segs[i]).val

(***************************************************************************)
(* The entries of a schema and the segments they come from.                *)
(***************************************************************************)
\* C25 (as claimed): the schema that newSchema returns has one entry for
\* each segment after the root, in the order of the segments, and the entry
\* is the whole of the segment: the label, the colon and the type, white
\* space aside, are the segment, with nothing of it left out.
C25_EntriesAreSegments ==
    (last.op = "newSchema" /\ last.err = "none")
    => /\ Len(schema) = Len(last.segs)
       /\ \A k \in 1..Len(schema) :
            Squeezed(schema[k][1] \o <<":">> \o schema[k][2]) = Squeezed(last.segs[k])

\* What holds of C25: one entry for each segment after the root, in order,
\* made of the first two fields of the segment.
C25_EntriesInOrder ==
    (last.op = "newSchema" /\ last.err = "none")
    => /\ Len(schema) = Len(last.segs)
       /\ \A k \in 1..Len(schema) :
            schema[k] = <<LabelOf(last.segs[k]), TypeOf(last.segs[k])>>

(***************************************************************************)
(* The Blake2b HKDF as a function: calls on chosen arguments.              *)
(***************************************************************************)
HkdfIkms == {Zeros(32), Lit(<<7>>), <<>>}

\* The salt: absent, or of 1 to 64 bytes (the key of a keyed Blake2b).
HkdfSalts == {Undefined, Lit(<<1>>), Zeros(64)}

HkdfInfos == {Undefined, <<>>, TagMaster}

\* The lengths requested: absent, and 0 to MaxBlocks blocks.
HkdfLengths == {<<>>} \cup {<<n>> : n \in 0..(MaxBlocks * MacLen)}

CallHkdf(ikm, salt, info, length) ==
    /\ last = Idle
    /\ last' = [Idle EXCEPT !.op = "hkdf", !.args = <<ikm, salt, info, length>>,
                            !.out = Blake2bHkdf(ikm, salt, info, length)]
    /\ UNCHANGED <<h, keys, bufs, ghost, schema>>

DoHkdf ==
    \E ikm \in HkdfIkms, salt \in HkdfSalts, info \in HkdfInfos, length \in HkdfLengths :
        CallHkdf(ikm, salt, info, length)

NextHkdf == DoHkdf \/ Return

SpecHkdf == Init /\ [][NextHkdf]_vars

\* The block T(i) of the expand stream: T(0) is empty and T(i) is the MAC
\* under prk of T(i - 1), info and the byte i.
RECURSIVE T(_, _, _)
T(prk, info, i) ==
    IF i = 0 THEN <<>>
    ELSE MacDigest(prk, Concat(Concat(T(prk, info, i - 1), info), Lit(<<i>>)))

\* T(1) || T(2) || ... || T(n)
RECURSIVE Stream(_, _, _)
Stream(prk, info, n) ==
    IF n = 0 THEN <<>> ELSE Concat(Stream(prk, info, n - 1), T(prk, info, n))

SaltMessages ==
    {<<>>, Zeros(1), Zeros(32), Zeros(64), Zeros(65), Lit(<<7>>), Lit(<<1, 2>>), SaltDomain}

\* The context: absent, empty, an encoded index, other bytes.
SaltInfos ==
    {Undefined, <<>>, EncodeInt(Num(0)), EncodeInt(Num(42)),
     EncodeInt(Limbs(65535, 65535)), Lit(<<1>>), Zeros(16)}

CallSalt(msg, info) ==
    /\ last = Idle
    /\ last' = [Idle EXCEPT !.op = "calcSalt", !.args = <<msg, info>>,
                            !.out = CalcSalt(h, msg, info)]
    /\ UNCHANGED <<h, keys, bufs, ghost, schema>>

DoSalt == \E msg \in SaltMessages, info \in SaltInfos : CallSalt(msg, info)

NextSalt == DoSalt \/ Return

SpecSalt == Init /\ [][NextSalt]_vars

\* C27 (as claimed): calcSalt returns exactly 16 bytes for every message and
\* every context, present or absent: the first 16 bytes of the MAC of the
\* message followed by "SALT", under a key of 16 bytes, which is the start of
\* the hash of the context, or 16 zero bytes when there is no context.
C27_SaltIs16Bytes ==
    last.op = "calcSalt"
    => LET msg == last.args[1]
           info == last.args[2]
           key == IF info = Undefined THEN Zeros(16) ELSE Take(Hash(h, info), 16)
       IN  /\ BLen(key) = 16
           /\ BLen(last.out) = 16
           /\ last.out = Take(Hmac(h, key, Concat(msg, Lit(<<83, 65, 76, 84>>))), 16)

(***************************************************************************)
(* Children of one parent under indices over the whole of 0..2^32-1: 0, 1, *)
(* 10, 42, 2^16, 2^31 and 2^32-1.                                          *)
(***************************************************************************)
SiblingIndices ==
    {Num(0), Num(1), Num(10), Num(42), Limbs(1, 0), Limbs(ModulusHi, 0), Limbs(65535, 65535)}

DoSibling ==
    \E p \in 1..MaxKeys, index \in SiblingIndices :
        /\ Len(keys) < MaxKeys
        /\ p <= Len(keys)
        /\ keys[p].depth < MaxDepth
        /\ Child(p, index)

NextSiblings == DoMaster \/ DoSibling \/ Return

SpecSiblings == Init /\ [][NextSiblings]_vars

\* The index that deriveChild was given for keys[k].
ChildIndex(k) == NodePath(k)[1]

\* C28: two children of one parent under two distinct indices of 0..2^32-1
\* were derived with distinct salt contexts (the 4-byte encodings of the
\* indices) and distinct expand tags ("CHILD" and the decimal digits of the
\* index), and have different keys and different chain codes.
C28_SiblingsDiffer ==
    \A a \in 1..Len(keys), b \in 1..Len(keys) :
        (/\ ghost[a].op = "child" /\ ghost[b].op = "child"
         /\ ghost[a].parent = ghost[b].parent
         /\ ChildIndex(a) # ChildIndex(b))
        => /\ EncodeInt(ChildIndex(a)) # EncodeInt(ChildIndex(b))
           /\ BLen(EncodeInt(ChildIndex(a))) = 4
           /\ Concat(TagChild, IndexToString(ChildIndex(a)))
                # Concat(TagChild, IndexToString(ChildIndex(b)))
           /\ keys[a].key # keys[b].key
           /\ keys[a].code # keys[b].code

\* The children of a master key under the indices 0 and 2^31.
C28_Witness ==
    /\ Len(keys) = 3
    /\ ghost[2].op = "child" /\ ghost[2].parent = 1 /\ ChildIndex(2) = Num(0)
    /\ ghost[3].op = "child" /\ ghost[3].parent = 1 /\ ChildIndex(3) = Limbs(ModulusHi, 0)
    /\ keys[2].key # keys[3].key

(***************************************************************************)
(* deriveNode in two calls and in one: keys[1] is a master key, and either *)
(* keys[2] its node under a path p, keys[3] the node of keys[2] under a    *)
(* path q and keys[4] the node of keys[1] under p followed by q, or        *)
(* keys[2] its child under an index and keys[3] its node under the path of *)
(* that index alone.                                                       *)
(***************************************************************************)
JoinPaths == UNION {[1..n -> Indices] : n \in 1..MaxPathLen}

ComposeMaster == \E secret \in Secrets : Len(keys) = 0 /\ Master(secret)

ComposeNode ==
    \E path \in JoinPaths :
        /\ Len(keys) \in {1, 2}
        /\ ghost[Len(keys)].op # "child"
        /\ Node(Len(keys), path)

ComposeWhole ==
    /\ Len(keys) = 3
    /\ ghost[2].op = "node"
    /\ Node(1, NodePath(2) \o NodePath(3))

ComposeChild == \E index \in Indices : Len(keys) = 1 /\ Child(1, index)

ComposeSingle ==
    /\ Len(keys) = 2
    /\ ghost[2].op = "child"
    /\ Node(1, <<ChildIndex(2)>>)

NextCompose ==
    ComposeMaster \/ ComposeNode \/ ComposeWhole \/ ComposeChild \/ ComposeSingle \/ Return

SpecCompose == Init /\ [][NextCompose]_vars

\* C29: deriveNode under a path p followed by a path q, both non-empty, gives
\* the HDKey that deriveNode under q gives from the node under p: the same
\* key, chain code, depth and fingerprint; deriveNode under the path of one
\* index gives the HDKey that deriveChild gives under that index; and the
\* fingerprint of the HDKey it starts from has no part in the result.
C29_NodeComposes ==
    /\ \A a \in 1..Len(keys), b \in 1..Len(keys), c \in 1..Len(keys) :
            (/\ ghost[a].op = "node" /\ ghost[b].op = "node" /\ ghost[c].op = "node"
             /\ ghost[b].parent = a
             /\ ghost[c].parent = ghost[a].parent
             /\ NodePath(a) # <<>> /\ NodePath(b) # <<>>
             /\ NodePath(c) = NodePath(a) \o NodePath(b))
            => /\ keys[c].key = keys[b].key
               /\ keys[c].code = keys[b].code
               /\ keys[c].depth = keys[b].depth
               /\ keys[c].fingerprint = keys[b].fingerprint
    /\ \A a \in 1..Len(keys), b \in 1..Len(keys) :
            (/\ ghost[a].op = "child" /\ ghost[b].op = "node"
             /\ ghost[a].parent = ghost[b].parent
             /\ NodePath(b) = <<ChildIndex(a)>>)
            => keys[b] = keys[a]
    /\ \A b \in 1..Len(keys) :
            (ghost[b].op = "node" /\ NodePath(b) # <<>>)
            => keys[b] = DeriveNode(h, [keys[ghost[b].parent] EXCEPT !.fingerprint = <<>>],
                                    NodePath(b))

\* The node under the path 42, 0 of the node under the path 0, 42 of a master
\* key, and the node under 0, 42, 42, 0 of the master key.
C29_Witness ==
    /\ Len(keys) = 4
    /\ NodePath(2) = <<Num(0), Num(42)>>
    /\ NodePath(3) = <<Num(42), Num(0)>>
    /\ NodePath(4) = <<Num(0), Num(42), Num(42), Num(0)>>
    /\ keys[4] = keys[3]
    /\ keys[4].depth = 4

\* The child of a master key under 42 and its node under the path 42.
C29_WitnessSingle ==
    /\ Len(keys) = 3
    /\ ghost[2].op = "child"
    /\ ghost[3].op = "node"
    /\ NodePath(3) = <<Num(42)>>
    /\ keys[3] = keys[2]

====
